---------------------------- MODULE Spec2Model ----------------------------
(***************************************************************************)
(* A model of hmm.py: the hidden Markov model base class _BaseHMM (its     *)
(* parameter store, sampler and the log-domain forward, backward and       *)
(* Viterbi passes with rank and beam pruning).                             *)
(*                                                                         *)
(* Numbers.  The code computes with floating point log-probabilities.      *)
(* Here a log-domain number x is held exactly, as e^x written in powers of *)
(* Eta = e^-25: the tuple <<c0, c1, ..., ck>> (naturals, ck > 0) stands    *)
(* for log(c0 + c1*Eta + ... + ck*Eta^k), and the empty tuple for          *)
(* log 0 = -inf.  Adding two log-domain numbers multiplies the             *)
(* polynomials, logsum adds them, and as long as every coefficient stays   *)
(* far below e^25 the order of two numbers is the lexicographic order of   *)
(* their coefficients.  Probabilities are held in units of 1/Den, so the   *)
(* log of the probability p/Den is held as <<p>>: every entry of one       *)
(* lattice row carries the same missing power of Den, which none of the    *)
(* comparisons the code makes within a row, and none of the statements     *)
(* below, depends on.  NaN is held as <<-1>>.                              *)
(***************************************************************************)
EXTENDS Integers, Sequences, FiniteSets, TLC

\* Bounds of the model.
MaxStates == 2
MaxFrames == 3
MaxSamples == 3

RECURSIVE Factorial(_)
Factorial(n) == IF n <= 1 THEN 1 ELSE n * Factorial(n - 1)

\* The unit of probability is 1/Den: 1/n is a whole number of units for every
\* number n of states.
Den == Factorial(MaxStates)

VARIABLES
  nstates,         \* self._nstates; 0 before the object is constructed
  log_startprob,   \* self._log_startprob
  log_transmat,    \* self._log_transmat
  call,            \* the last call on the parameter store or sampler, and its outcome
  framelogprob,    \* the frame log-likelihood matrix of the inference call
  maxrank,         \* the inference call's maxrank (0 stands for None)
  beamlogprob,     \* the inference call's beamlogprob
  decoded,         \* what decode returned
  likelihood,      \* what lpdf returned
  evaluated,       \* what eval returned
  pruned           \* what _prune_states returned (pruner specification)

vars == <<nstates, log_startprob, log_transmat, call, framelogprob, maxrank,
          beamlogprob, decoded, likelihood, evaluated, pruned>>

---------------------------------------------------------------------------
\* Log-domain arithmetic.

NegInf == <<>>
NaN == << -1 >>
Eta == <<0, 1>>

\* np.log of the natural number c (for c = 0, -inf).
LogOf(c) == IF c = 0 THEN NegInf ELSE <<c>>

Coef(x, i) == IF i <= Len(x) THEN x[i] ELSE 0

MaxOf(a, b) == IF a >= b THEN a ELSE b

MinOf(a, b) == IF a <= b THEN a ELSE b

RECURSIVE ConvSum(_, _, _, _)
ConvSum(x, y, k, i) ==
  IF i > Len(x) \/ i > k THEN 0
  ELSE x[i] * Coef(y, k - i + 1) + ConvSum(x, y, k, i + 1)

\* The first k coefficients of the product of x and y.
RECURSIVE Product(_, _, _)
Product(x, y, k) ==
  IF k = 0 THEN <<>> ELSE Append(Product(x, y, k - 1), ConvSum(x, y, k, 1))

\* x + y of two log-domain numbers.
LogAdd(x, y) ==
  IF x = NegInf \/ y = NegInf THEN NegInf
  ELSE Product(x, y, Len(x) + Len(y) - 1)

\* The first k coefficients of the sum of x and y.
RECURSIVE Sum(_, _, _)
Sum(x, y, k) ==
  IF k = 0 THEN <<>> ELSE Append(Sum(x, y, k - 1), Coef(x, k) + Coef(y, k))

\* log(e^x + e^y).
logsum2(x, y) == Sum(x, y, MaxOf(Len(x), Len(y)))

RECURSIVE LessFrom(_, _, _)
LessFrom(x, y, i) ==
  IF i > Len(x) /\ i > Len(y) THEN FALSE
  ELSE IF Coef(x, i) # Coef(y, i) THEN Coef(x, i) < Coef(y, i)
  ELSE LessFrom(x, y, i + 1)

\* x < y of two log-domain numbers.
LogLess(x, y) == LessFrom(x, y, 1)

LogGeq(x, y) == ~LogLess(x, y)

RECURSIVE logsumOver(_, _)
logsumOver(A, D) ==
  IF D = {} THEN NegInf
  ELSE LET i == CHOOSE j \in D : TRUE
       IN logsum2(A[i], logsumOver(A, D \ {i}))

\* gmm.logsum(A): log(sum(exp(A))); -inf when every entry is -inf.
logsum(A) == logsumOver(A, DOMAIN A)

LogMax2(x, y) == IF LogLess(x, y) THEN y ELSE x

LogMin2(x, y) == IF LogLess(y, x) THEN y ELSE x

RECURSIVE LogMaxOver(_, _)
LogMaxOver(A, D) ==
  IF D = {} THEN NegInf
  ELSE LET i == CHOOSE j \in D : TRUE
       IN LogMax2(A[i], LogMaxOver(A, D \ {i}))

\* ZEROLOGPROB = -1e200 lies below every finite number the model holds
\* (the smallest is near -75 * MaxFrames) and above -inf.
AboveZEROLOGPROB(x) == x # NegInf

\* lattice[lattice <= ZEROLOGPROB] = -inf, on one entry.
ClampZero(x) == IF AboveZEROLOGPROB(x) THEN x ELSE NegInf

---------------------------------------------------------------------------
\* The state pruner.

\* The -50 of the backward pass's pruning call, in nats: two powers of Eta.
BackwardBeamNats == 50

\* Natural logarithms in units of 1/LnUnit nat: LnTab[c] = round(LnUnit * ln c).
LnUnit == 10^5

LnTab ==
  << 0, 69315, 109861, 138629, 160944, 179176, 194591, 207944, 219722, 230259,
     239790, 248491, 256495, 263906, 270805, 277259, 283321, 289037, 294444, 299573,
     304452, 309104, 313549, 317805, 321888, 325810, 329584, 333220, 336730, 340120,
     343399, 346574, 349651, 352636, 355535, 358352, 361092, 363759, 366356, 368888,
     371357, 373767, 376120, 378419, 380666, 382864, 385015, 387120, 389182, 391202,
     393183, 395124, 397029, 398898, 400733, 402535, 404305, 406044, 407754, 409434,
     411087, 412713, 414313, 415888, 417439, 418965, 420469, 421951, 423411, 424850,
     426268, 427667, 429046, 430407, 431749, 433073, 434381, 435671, 436945, 438203,
     439445, 440672, 441884, 443082, 444265, 445435, 446591, 447734, 448864, 449981,
     451086, 452179, 453260, 454329, 455388, 456435, 457471, 458497, 459512, 460517,
     461512, 462497, 463473, 464439, 465396, 466344, 467283, 468213, 469135, 470048,
     470953, 471850, 472739, 473620, 474493, 475359, 476217, 477068, 477912, 478749,
     479579, 480402, 481218, 482028, 482831, 483628, 484419, 485203, 485981, 486753,
     487520, 488280, 489035, 489784, 490527, 491265, 491998, 492725, 493447, 494164,
     494876, 495583, 496284, 496981, 497673, 498361, 499043, 499721, 500395, 501064,
     501728, 502388, 503044, 503695, 504343, 504986, 505625, 506260, 506890, 507517,
     508140, 508760, 509375, 509987, 510595, 511199, 511799, 512396, 512990, 513580,
     514166, 514749, 515329, 515906, 516479, 517048, 517615, 518178, 518739, 519296,
     519850, 520401, 520949, 521494, 522036, 522575, 523111, 523644, 524175, 524702,
     525227, 525750, 526269, 526786, 527300, 527811, 528320, 528827, 529330, 529832,
     530330, 530827, 531321, 531812, 532301, 532788, 533272, 533754, 534233, 534711,
     535186, 535659, 536129, 536598, 537064, 537528, 537990, 538450, 538907, 539363,
     539816, 540268, 540717, 541165, 541610, 542053, 542495, 542935, 543372, 543808,
     544242, 544674, 545104, 545532, 545959, 546383, 546806, 547227, 547646, 548064,
     548480, 548894, 549306, 549717, 550126, 550533, 550939, 551343, 551745, 552146,
     552545, 552943, 553339, 553733, 554126, 554518, 554908, 555296, 555683, 556068,
     556452, 556834, 557215, 557595, 557973, 558350, 558725, 559099, 559471, 559842,
     560212, 560580, 560947, 561313, 561677, 562040, 562402, 562762, 563121, 563479,
     563835, 564191, 564545, 564897, 565249, 565599, 565948, 566296, 566643, 566988,
     567332, 567675, 568017, 568358, 568698, 569036, 569373, 569709, 570044, 570378 >>
\* The log-domain number x (not -inf) as a real, in units of 1/LnUnit nat, from
\* its leading term (the rest adds less than e^-20).
RECURSIVE LeadFrom(_, _)
LeadFrom(x, i) == IF x[i] # 0 THEN i ELSE LeadFrom(x, i + 1)

Ln(x) ==
  LET lead == LeadFrom(x, 1)
  IN LnTab[x[lead]] - (lead - 1) * (BackwardBeamNats \div 2) * LnUnit

\* A beamlogprob is held as <<num, den>>, standing for log(e^num / den):
\* -inf is <<NegInf, 1>>, ln 0.45 is <<LogOf(9), 20>>, -50 is <<<<0, 0, 1>>, 1>>.
NoBeam == <<NegInf, 1>>

\* A faulty variant of AboveBeam: > in place of >=.
AboveBeam_strict(x, total, beam) ==
  LogLess(LogAdd(total, beam[1]), LogAdd(x, LogOf(beam[2])))

\* lattice_frame[s] >= logsum(lattice_frame) + beamlogprob
AboveBeam(x, total, beam) ==
  LogGeq(LogAdd(x, LogOf(beam[2])), LogAdd(total, beam[1]))

BeamActive(frame, total, beam) ==
  {s \in DOMAIN frame : AboveBeam(frame[s], total, beam)}

\* x >= cdf[m], the m-th of the nbins + 1 edges np.histogram lays from
\* lattice_min = lo - 1 to lattice_frame.max() = hi (the last edge is hi itself);
\* lnlo and lnhi are Ln(lo) and Ln(hi).
AtOrAboveEdge(x, m, hi, lnlo, lnhi, nbins) ==
  IF x = NegInf THEN FALSE
  ELSE IF m = nbins THEN LogGeq(x, hi)
  ELSE nbins * (Ln(x) - lnlo + LnUnit) >= m * (lnhi - lnlo + LnUnit)

AboveEdge(frame, m, hi, lnlo, lnhi, nbins) ==
  {s \in DOMAIN frame : AtOrAboveEdge(frame[s], m, hi, lnlo, lnhi, nbins)}

RECURSIVE LogMinOver(_, _)
LogMinOver(A, D) ==
  LET i == CHOOSE j \in D : TRUE
  IN IF D = {i} THEN A[i] ELSE LogMin2(LogMinOver(A, D \ {i}), A[i])

\* np.nonzero of a mask over the states: the set's members in ascending order.
RECURSIVE Ascending(_)
Ascending(S) ==
  IF S = {} THEN <<>>
  ELSE LET m == CHOOSE j \in S : \A k \in S : j <= k
       IN <<m>> \o Ascending(S \ {m})

Least(S) == CHOOSE i \in S : \A j \in S : i <= j

\* The rank pruning of _prune_states on a frame whose least finite entry is lo
\* and whose greatest entry is hi.  hst[::-1].cumsum()[i] counts the entries in
\* the top i + 1 bins, those at or above edge nbins - 1 - i; the mask of the
\* positions where that count reaches min(maxrank, nstates) selects from
\* cdf[::-1], whose position i holds edge nbins - i, so rankthresh, the greatest
\* edge selected, is the edge at the first masked position.  max() of an empty
\* selection raises ValueError.
RankActive(frame, maxrank_, hi, lnlo, lnhi, nbins, mask) ==
  IF mask = {} THEN [raised |-> TRUE, idx |-> {}]
  ELSE [raised |-> FALSE,
        idx |-> AboveEdge(frame, nbins - Least(mask), hi, lnlo, lnhi, nbins)]

RankPruned(frame, maxrank_, hi, lnlo, lnhi, nbins) ==
  RankActive(frame, maxrank_, hi, lnlo, lnhi, nbins,
             {i \in 0..(nbins - 1) :
                Cardinality(AboveEdge(frame, nbins - 1 - i, hi, lnlo, lnhi, nbins))
                  >= MinOf(maxrank_, nstates)})

\* lattice_frame[lattice_frame > ZEROLOGPROB].min() raises ValueError when no
\* entry is above ZEROLOGPROB.
RankPruning(frame, maxrank_, finite) ==
  IF finite = {} THEN [raised |-> TRUE, idx |-> {}]
  ELSE RankPruned(frame, maxrank_, LogMaxOver(frame, DOMAIN frame),
                  Ln(LogMinOver(frame, finite)), Ln(LogMaxOver(frame, DOMAIN frame)),
                  3 * Cardinality(DOMAIN frame))

\* threshlogprob = max(threshlogprob, rankthresh) bounds both thresholds, so a
\* state is active when it is at or above the beam and the rank threshold.
Active(beamOk, rank) ==
  IF rank.raised THEN [raised |-> TRUE, idx |-> <<>>]
  ELSE [raised |-> FALSE, idx |-> Ascending(beamOk \cap rank.idx)]

\* _prune_states(lattice_frame, maxrank, beamlogprob): the indices of the active
\* states in ascending order, or raised when numpy raises ValueError.
_prune_states(lattice_frame, maxrank_, beamlogprob_) ==
  IF maxrank_ = 0
    THEN [raised |-> FALSE,
          idx |-> Ascending(BeamActive(lattice_frame, logsum(lattice_frame), beamlogprob_))]
    ELSE Active(BeamActive(lattice_frame, logsum(lattice_frame), beamlogprob_),
                RankPruning(lattice_frame, maxrank_,
                   {s \in DOMAIN lattice_frame : AboveZEROLOGPROB(lattice_frame[s])}))

---------------------------------------------------------------------------
\* The Viterbi, forward and backward passes.  A lattice is the sequence of its
\* rows (frame n of the code is row n + 1); a row is a function of the state
\* index 0..nstates-1.  Each loop is written as a recursion on the number of
\* rows built, with the intermediate results passed as parameters.

States == 0..(nstates - 1)

Raised == [raised |-> TRUE]

\* np.argmax(A): the first position that holds the maximum.
FirstAt(A, m) == CHOOSE i \in DOMAIN A : A[i] = m /\ \A j \in DOMAIN A : A[j] = m => i <= j

ArgMax(A) == FirstAt(A, LogMaxOver(A, DOMAIN A))

ClampRow(row) == [s \in DOMAIN row |-> ClampZero(row[s])]

\* lattice[lattice <= ZEROLOGPROB] = -inf
ClampLattice(lattice) == [n \in DOMAIN lattice |-> ClampRow(lattice[n])]

\* lattice[0] = self._log_startprob + framelogprob[0]
FirstRow(flp) == [s \in States |-> LogAdd(log_startprob[s], flp[1][s])]

\* A faulty variant of pr: the lattice[n-1, idx] term left out.
pr_without_lattice(last, idx, d) ==
  [j \in 1..Len(idx) |-> log_transmat[idx[j]][d]]

\* self._log_transmat[idx].T + lattice[n-1, idx], for the destination state d:
\* one entry per active source state, in idx's order.
pr(last, idx, d) ==
  [j \in 1..Len(idx) |-> LogAdd(log_transmat[idx[j]][d], last[idx[j]])]

\* One turn of the loop of _do_viterbi_pass.  np.max of no entries raises.
ViterbiStep(prev, active, flp_n, n) ==
  IF active.raised \/ active.idx = <<>> THEN Raised
  ELSE [raised |-> FALSE,
        lattice |-> Append(prev.lattice,
           [d \in States |->
              LogAdd(LogMaxOver(pr(prev.lattice[n - 1], active.idx, d), 1..Len(active.idx)),
                     flp_n[d])]),
        traceback |-> Append(prev.traceback,
           [d \in States |-> ArgMax(pr(prev.lattice[n - 1], active.idx, d)) - 1])]

ViterbiAfter(prev, flp, maxrank_, beamlogprob_, n) ==
  IF prev.raised THEN Raised
  ELSE ViterbiStep(prev, _prune_states(prev.lattice[n - 1], maxrank_, beamlogprob_),
                   flp[n], n)

\* Rows 1..n of lattice and traceback.
RECURSIVE ViterbiRows(_, _, _, _)
ViterbiRows(flp, maxrank_, beamlogprob_, n) ==
  IF n = 1
    THEN [raised |-> FALSE, lattice |-> <<FirstRow(flp)>>,
          traceback |-> << [s \in States |-> 0] >>]
    ELSE ViterbiAfter(ViterbiRows(flp, maxrank_, beamlogprob_, n - 1),
                      flp, maxrank_, beamlogprob_, n)

\* The traceback loop: the states of frames 1..n, ending in s.
RECURSIVE Walk(_, _, _)
Walk(traceback, n, s) ==
  IF n = 0 THEN <<>>
  ELSE Append(Walk(traceback, n - 1, traceback[n][s]), s)

ViterbiReturn(lattice, traceback, nobs) ==
  [raised |-> FALSE,
   logprob |-> logsum(lattice[nobs]),
   state_sequence |-> Walk(traceback, nobs, ArgMax(lattice[nobs]))]

ViterbiEnd(rows, nobs) ==
  IF rows.raised THEN Raised
  ELSE ViterbiReturn(ClampLattice(rows.lattice), rows.traceback, nobs)

_do_viterbi_pass(flp, maxrank_, beamlogprob_) ==
  ViterbiEnd(ViterbiRows(flp, maxrank_, beamlogprob_, Len(flp)), Len(flp))

\* One turn of the loop of _do_forward_pass.  logsum takes the maximum of its
\* argument first, and the maximum of no entries raises.
ForwardStep(prev, active, flp_n, n) ==
  IF active.raised \/ active.idx = <<>> THEN Raised
  ELSE [raised |-> FALSE,
        lattice |-> Append(prev.lattice,
           [d \in States |->
              LogAdd(logsum(pr(prev.lattice[n - 1], active.idx, d)), flp_n[d])])]

ForwardAfter(prev, flp, maxrank_, beamlogprob_, n) ==
  IF prev.raised THEN Raised
  ELSE ForwardStep(prev, _prune_states(prev.lattice[n - 1], maxrank_, beamlogprob_),
                   flp[n], n)

\* Rows 1..n of fwdlattice.
RECURSIVE ForwardRows(_, _, _, _)
ForwardRows(flp, maxrank_, beamlogprob_, n) ==
  IF n = 1
    THEN [raised |-> FALSE, lattice |-> <<FirstRow(flp)>>]
    ELSE ForwardAfter(ForwardRows(flp, maxrank_, beamlogprob_, n - 1),
                      flp, maxrank_, beamlogprob_, n)

\* A faulty variant of ForwardReturn: the maximum of the last row in place of
\* its logsum.
ForwardReturn_max(fwdlattice, nobs) ==
  [raised |-> FALSE,
   logprob |-> LogMaxOver(fwdlattice[nobs], DOMAIN fwdlattice[nobs]),
   fwdlattice |-> fwdlattice]

ForwardReturn(fwdlattice, nobs) ==
  [raised |-> FALSE, logprob |-> logsum(fwdlattice[nobs]), fwdlattice |-> fwdlattice]

ForwardEnd(rows, nobs) ==
  IF rows.raised THEN Raised ELSE ForwardReturn(ClampLattice(rows.lattice), nobs)

_do_forward_pass(flp, maxrank_, beamlogprob_) ==
  ForwardEnd(ForwardRows(flp, maxrank_, beamlogprob_, Len(flp)), Len(flp))

\* The pruning call of the backward pass: maxrank None and a beam of -50,
\* whatever the caller passed.
BackwardBeam == <<LogAdd(Eta, Eta), 1>>

BackwardActive(bwdrow, fwdrow) ==
  _prune_states([s \in States |-> LogAdd(bwdrow[s], fwdrow[s])], 0, BackwardBeam).idx

\* logsum(self._log_transmat[:,idx] + bwdlattice[n,idx] + framelogprob[n,idx], axis=1)
BackwardRow(next, idx, flp_n) ==
  [s \in States |->
     logsum([j \in 1..Len(idx) |->
               LogAdd(LogAdd(log_transmat[s][idx[j]], next[idx[j]]), flp_n[idx[j]])])]

\* One turn of the loop of _do_backward_pass: row n is put before rows n+1..nobs.
BackwardStep(rest, flp, fwdlattice, n) ==
  <<BackwardRow(rest[1], BackwardActive(rest[1], fwdlattice[n + 1]), flp[n + 1])>> \o rest

\* Rows n..nobs of bwdlattice; the last row is np.zeros.
RECURSIVE BackwardRows(_, _, _)
BackwardRows(flp, fwdlattice, n) ==
  IF n = Len(flp)
    THEN << [s \in States |-> LogOf(1)] >>
    ELSE BackwardStep(BackwardRows(flp, fwdlattice, n + 1), flp, fwdlattice, n)

_do_backward_pass(flp, fwdlattice, maxrank_, beamlogprob_) ==
  ClampLattice(BackwardRows(flp, fwdlattice, 1))

\* np.exp(gamma - logsum(gamma row)): the pair <<e^gamma, e^logsum>> standing
\* for their quotient; -inf - -inf is NaN.
Posterior(gamma, norm) == IF norm = NegInf THEN NaN ELSE <<gamma, norm>>

\* gamma = fwdlattice + bwdlattice
Gamma(fwdlattice, bwdlattice) ==
  [n \in DOMAIN fwdlattice |->
     [s \in States |-> LogAdd(fwdlattice[n][s], bwdlattice[n][s])]]

\* posteriors = np.exp(gamma.T - logsum(gamma, axis=1)).T
Posteriors(gamma) ==
  [n \in DOMAIN gamma |-> [s \in States |-> Posterior(gamma[n][s], logsum(gamma[n]))]]

EvalWith(flp, fwd, maxrank_, beamlogprob_) ==
  IF fwd.raised THEN Raised
  ELSE [raised |-> FALSE,
        logprob |-> fwd.logprob,
        posteriors |-> Posteriors(Gamma(fwd.fwdlattice,
           _do_backward_pass(flp, fwd.fwdlattice, maxrank_, beamlogprob_)))]

\* eval(obs, maxrank, beamlogprob), given the frame log-likelihoods of obs.
eval(flp, maxrank_, beamlogprob_) ==
  EvalWith(flp, _do_forward_pass(flp, maxrank_, beamlogprob_), maxrank_, beamlogprob_)

LpdfWith(fwd) ==
  IF fwd.raised THEN Raised ELSE [raised |-> FALSE, logprob |-> fwd.logprob]

\* lpdf(obs, maxrank, beamlogprob)
lpdf(flp, maxrank_, beamlogprob_) ==
  LpdfWith(_do_forward_pass(flp, maxrank_, beamlogprob_))

\* decode(obs, maxrank, beamlogprob)
decode(flp, maxrank_, beamlogprob_) == _do_viterbi_pass(flp, maxrank_, beamlogprob_)

---------------------------------------------------------------------------
\* The parameter store.  A probability is held in units of 1/Den; a vector
\* or matrix passed by a caller is a sequence (of sequences) of such numbers.

RECURSIVE SumSeq(_)
SumSeq(v) == IF v = <<>> THEN 0 ELSE v[1] + SumSeq(Tail(v))

\* gmm.almost_equal(actual, desired): the tolerance is far below one unit.
almost_equal(actual, desired) == actual = desired

\* np.log of the probability p/Den.
NpLog(p) == IF p > 0 THEN <<p>> ELSE IF p = 0 THEN NegInf ELSE NaN

\* A probability, as the getters and the sampler hold it: <<p>> for p/Den, and
\* the empty tuple for NaN.
ProbNaN == <<>>

\* np.exp of a stored log-probability.
NpExp(x) == IF x = NaN THEN ProbNaN ELSE IF x = NegInf THEN <<0>> ELSE <<x[1]>>

\* self._log_startprob = np.log(np.asarray(startprob).copy())
StartprobStored(v) == [s \in 0..(Len(v) - 1) |-> NpLog(v[s + 1])]

\* A faulty variant of startprob_setter: the sum is not checked.
startprob_setter_unchecked(n, old, v) ==
  IF Len(v) # n THEN [raised |-> TRUE, log |-> old]
  ELSE [raised |-> FALSE, log |-> StartprobStored(v)]

\* The startprob setter on an object of n states whose store holds old: whether
\* it raised ValueError, and what self._log_startprob holds afterwards.
startprob_setter(n, old, v) ==
  IF Len(v) # n THEN [raised |-> TRUE, log |-> old]
  ELSE IF ~almost_equal(SumSeq(v), Den) THEN [raised |-> TRUE, log |-> old]
  ELSE [raised |-> FALSE, log |-> StartprobStored(v)]

\* np.log, then the NaN entries set to -inf.
TransmatStored(m) ==
  [s \in 0..(Len(m) - 1) |->
     [d \in 0..(Len(m[s + 1]) - 1) |->
        LET x == NpLog(m[s + 1][d + 1]) IN IF x = NaN THEN NegInf ELSE x]]

\* np.asarray(transmat).shape == (n, n)
ShapeIs(m, n) == Len(m) = n /\ \A r \in 1..Len(m) : Len(m[r]) = n

\* The transmat setter, likewise.
transmat_setter(n, old, m) ==
  IF ~ShapeIs(m, n) THEN [raised |-> TRUE, log |-> old]
  ELSE IF ~(\A r \in 1..Len(m) : almost_equal(SumSeq(m[r]), Den))
    THEN [raised |-> TRUE, log |-> old]
  ELSE [raised |-> FALSE, log |-> TransmatStored(m)]

\* np.tile(1.0 / nstates, nstates) and np.tile(1.0 / nstates, (nstates, nstates))
UniformVector(n) == [i \in 1..n |-> Den \div n]

UniformMatrix(n) == [r \in 1..n |-> UniformVector(n)]

\* The startprob and transmat getters: a new array each time.
startprob == [s \in States |-> NpExp(log_startprob[s])]

transmat == [s \in States |-> [d \in States |-> NpExp(log_transmat[s][d])]]

\* What callers pass.
ProbUnits == (-1)..(Den + 1)

VectorInputs == UNION {[1..len -> ProbUnits] : len \in 1..(MaxStates + 1)}

\* Matrices whose every row sums to 1 or falls one unit short of it.
RowInputs(cols) == {v \in [1..cols -> ProbUnits] : SumSeq(v) \in {Den - 1, Den}}

MatrixInputs ==
  UNION {[1..rows -> RowInputs(cols)] : rows \in 1..MaxStates, cols \in 1..MaxStates}

Unconstructed == <<>>

NoCall == [op |-> "none", raised |-> FALSE]

Pending == [called |-> FALSE]

NoInference ==
  /\ framelogprob = <<>>
  /\ maxrank = 0
  /\ beamlogprob = NoBeam
  /\ decoded = Pending
  /\ likelihood = Pending
  /\ evaluated = Pending
  /\ pruned = Pending

inference == <<framelogprob, maxrank, beamlogprob, decoded, likelihood, evaluated, pruned>>

store == <<nstates, log_startprob, log_transmat>>

\* Before the constructor has run.
Init ==
  /\ nstates = 0
  /\ log_startprob = Unconstructed
  /\ log_transmat = Unconstructed
  /\ call = NoCall
  /\ NoInference

\* What a call record says of the argument of a setter: whether its shape fits
\* n states, and whether it (each of its rows) sums to 1.
VectorFacts(n, v) == [shape_ok |-> Len(v) = n, sum_ok |-> SumSeq(v) = Den]

MatrixFacts(n, m) ==
  [shape_ok |-> Len(m) = n /\ \A r \in 1..Len(m) : Len(m[r]) = n,
   sum_ok |-> \A r \in 1..Len(m) : SumSeq(m[r]) = Den]

\* __init__(nstates, startprob, transmat): self._nstates = nstates, then the two
\* setters.  A setter that raises ends the constructor, and no object results.
Construct(n, sp, tm) ==
  /\ nstates = 0
  /\ LET s == startprob_setter(n, Unconstructed, sp)
         t == transmat_setter(n, Unconstructed, tm)
         ok == ~s.raised /\ ~t.raised
     IN /\ nstates' = IF ok THEN n ELSE 0
        /\ log_startprob' = IF ok THEN s.log ELSE Unconstructed
        /\ log_transmat' = IF ok THEN t.log ELSE Unconstructed
        /\ call' = [op |-> "__init__", raised |-> ~ok,
                    shape_ok |-> VectorFacts(n, sp).shape_ok /\ MatrixFacts(n, tm).shape_ok,
                    sum_ok |-> VectorFacts(n, sp).sum_ok /\ MatrixFacts(n, tm).sum_ok]
  /\ UNCHANGED inference

\* hmm.startprob = v
SetStartprob(v) ==
  /\ nstates > 0
  /\ LET s == startprob_setter(nstates, log_startprob, v)
     IN /\ log_startprob' = s.log
        /\ call' = [op |-> "startprob", raised |-> s.raised] @@ VectorFacts(nstates, v)
  /\ UNCHANGED <<nstates, log_transmat>>
  /\ UNCHANGED inference

\* hmm.transmat = m
SetTransmat(m) ==
  /\ nstates > 0
  /\ LET t == transmat_setter(nstates, log_transmat, m)
     IN /\ log_transmat' = t.log
        /\ call' = [op |-> "transmat", raised |-> t.raised] @@ MatrixFacts(nstates, m)
  /\ UNCHANGED <<nstates, log_startprob>>
  /\ UNCHANGED inference

\* _init(obs, params): each slice assignment writes into the array the getter
\* has just built from the stored logs; nothing is assigned to the store.
\* (GaussianHMM._init goes on to the means and covariances, which this model
\* leaves out.)
_init(params) ==
  LET startprob_written ==
        IF "s" \in params THEN [s \in States |-> <<Den \div nstates>>] ELSE startprob
      transmat_written ==
        IF "t" \in params THEN [s \in States |-> [d \in States |-> <<Den \div nstates>>]]
        ELSE transmat
  IN [log_startprob |-> log_startprob, log_transmat |-> log_transmat]

\* hmm.init(obs, params)
InitParams(params) ==
  /\ nstates > 0
  /\ LET after == _init(params)
     IN /\ log_startprob' = after.log_startprob
        /\ log_transmat' = after.log_transmat
  /\ call' = [op |-> "init", raised |-> FALSE, params |-> params]
  /\ UNCHANGED nstates
  /\ UNCHANGED inference

---------------------------------------------------------------------------
\* The sampler.

\* np.cumsum of a sequence of probabilities; a NaN makes the rest NaN.
RECURSIVE CumSum(_)
CumSum(p) ==
  IF p = <<>> THEN <<>>
  ELSE LET head == CumSum(SubSeq(p, 1, Len(p) - 1))
           before == IF head = <<>> THEN <<0>> ELSE head[Len(head)]
           last == p[Len(p)]
       IN Append(head, IF before = ProbNaN \/ last = ProbNaN THEN ProbNaN
                       ELSE <<before[1] + last[1]>>)

\* (cdf > rand).argmax() for a rand in [r/Den, (r+1)/Den): the first state whose
\* cumulated probability exceeds rand, and state 0 when none does.
Draw(cdf, r) ==
  LET above == {k \in 1..Len(cdf) : cdf[k] # ProbNaN /\ cdf[k][1] >= r + 1}
  IN IF above = {} THEN 0 ELSE (CHOOSE k \in above : \A j \in above : k <= j) - 1

RowSeq(row) == [k \in 1..nstates |-> row[k - 1]]

Rands == 0..(Den - 1)

\* The states rvs can visit after currstate in `steps` further draws: the loop
\* for x in xrange(n - 1), run `steps` times.
RECURSIVE Visits(_, _)
Visits(currstate, steps) ==
  IF steps <= 0 THEN {<<>>}
  ELSE UNION {
         LET next == Draw(CumSum(RowSeq(transmat[currstate])), r)
         IN {<<next>> \o rest : rest \in Visits(next, steps - 1)}
         : r \in Rands}

\* rvs(n): the states visited; _generate_sample_from_state is called once for
\* each, and the observation it returns is held as the state it was drawn from.
rvs(n) ==
  UNION {
    LET currstate == Draw(CumSum(RowSeq(startprob)), r)
    IN {<<currstate>> \o rest : rest \in Visits(currstate, n - 1)}
    : r \in Rands}

Rvs(n) ==
  /\ nstates > 0
  /\ \E obs \in rvs(n) :
       call' = [op |-> "rvs", raised |-> FALSE, n |-> n, obs |-> obs]
  /\ UNCHANGED store
  /\ UNCHANGED inference

Next ==
  \/ \E n \in 1..MaxStates :
       \E sp \in VectorInputs \cup {UniformVector(n)} :
         \E tm \in MatrixInputs \cup {UniformMatrix(n)} : Construct(n, sp, tm)
  \/ \E v \in VectorInputs : SetStartprob(v)
  \/ \E m \in MatrixInputs : SetTransmat(m)
  \/ \E params \in SUBSET {"s", "t"} : InitParams(params)
  \/ \E n \in 0..MaxSamples : Rvs(n)

Spec == Init /\ [][Next]_vars

---------------------------------------------------------------------------
\* Inference calls on a constructed model.  decode, lpdf and eval read the
\* store and change nothing, so a behaviour is one call, on any observations,
\* of any model the setters accept whose probabilities lie in [0, 1].

Probabilities(n) == {v \in [1..n -> 0..Den] : SumSeq(v) = Den}

\* A frame log-likelihood of -75.
Unlikely == <<0, 0, 0, 1>>

\* _compute_log_likelihood(obs): one row of frame log-likelihoods per
\* observation.  The observations of the model are of five kinds.

Emissions(n) ==
  { [s \in 0..(n - 1) |-> LogOf(1)],
    [s \in 0..(n - 1) |-> IF s = 0 THEN LogOf(1) ELSE LogOf(2)],
    [s \in 0..(n - 1) |-> IF s = 0 THEN LogOf(2) ELSE LogOf(1)],
    [s \in 0..(n - 1) |-> IF s = 0 THEN NegInf ELSE LogOf(1)],
    [s \in 0..(n - 1) |-> IF s = n - 1 THEN Unlikely ELSE LogOf(1)] }

Observations(n) == UNION {[1..nobs -> Emissions(n)] : nobs \in 1..MaxFrames}

\* maxrank: None (0) or a rank; beamlogprob: -inf or ln 0.45.
Maxranks == 0..MaxStates

Beams == {NoBeam, <<LogOf(9), 20>>}

InitInference ==
  /\ nstates \in 1..MaxStates
  /\ \E sp \in Probabilities(nstates) : log_startprob = StartprobStored(sp)
  /\ \E tm \in [1..nstates -> Probabilities(nstates)] : log_transmat = TransmatStored(tm)
  /\ call = NoCall
  /\ framelogprob \in Observations(nstates)
  /\ maxrank \in Maxranks
  /\ beamlogprob \in Beams
  /\ decoded = Pending
  /\ likelihood = Pending
  /\ evaluated = Pending
  /\ pruned = Pending

Called(result) == [called |-> TRUE] @@ result

Idle == ~decoded.called /\ ~likelihood.called /\ ~evaluated.called /\ ~pruned.called

Decode ==
  /\ Idle
  /\ decoded' = Called(decode(framelogprob, maxrank, beamlogprob))
  /\ UNCHANGED <<store, call, framelogprob, maxrank, beamlogprob, likelihood,
                 evaluated, pruned>>

Lpdf ==
  /\ Idle
  /\ likelihood' = Called(lpdf(framelogprob, maxrank, beamlogprob))
  /\ UNCHANGED <<store, call, framelogprob, maxrank, beamlogprob, decoded,
                 evaluated, pruned>>

Eval ==
  /\ Idle
  /\ evaluated' = Called(eval(framelogprob, maxrank, beamlogprob))
  /\ UNCHANGED <<store, call, framelogprob, maxrank, beamlogprob, decoded,
                 likelihood, pruned>>

NextInference == Decode \/ Lpdf \/ Eval

SpecInference == InitInference /\ [][NextInference]_vars

---------------------------------------------------------------------------
\* The pruner on its own: one lattice frame, one call of _prune_states.

FrameValues == {NegInf, LogOf(1), LogOf(2), LogOf(3), Eta, Unlikely, <<1, 1>>}

PrunerBeams == Beams \cup {<<LogOf(1), 1>>, BackwardBeam}

InitPruner ==
  /\ nstates \in 1..MaxStates
  /\ log_startprob = Unconstructed
  /\ log_transmat = Unconstructed
  /\ call = NoCall
  /\ \E frame \in [0..(nstates - 1) -> FrameValues] : framelogprob = <<frame>>
  /\ maxrank \in Maxranks
  /\ beamlogprob \in PrunerBeams
  /\ decoded = Pending
  /\ likelihood = Pending
  /\ evaluated = Pending
  /\ pruned = Pending

Prune ==
  /\ Idle
  /\ pruned' = Called(_prune_states(framelogprob[1], maxrank, beamlogprob))
  /\ UNCHANGED <<store, call, framelogprob, maxrank, beamlogprob, decoded,
                 likelihood, evaluated>>

SpecPruner == InitPruner /\ [][Prune]_vars

---------------------------------------------------------------------------
\* The properties checked, and the oracles they are checked against.

\* Every sequence of hidden states, one per frame.
Paths == [1..Len(framelogprob) -> States]

\* logStartProb[s0] + frameLogLik[0][s0] + sum over the later frames of
\* logTransMat[s(n-1)][s(n)] + frameLogLik[n][s(n)], up to frame n of path.
RECURSIVE PathScoreTo(_, _)
PathScoreTo(path, n) ==
  IF n = 1 THEN LogAdd(log_startprob[path[1]], framelogprob[1][path[1]])
  ELSE LogAdd(PathScoreTo(path, n - 1),
              LogAdd(log_transmat[path[n - 1]][path[n]], framelogprob[n][path[n]]))

PathScore(path) == PathScoreTo(path, Len(path))

\* The log of the total probability of a set of paths.
RECURSIVE TotalOver(_)
TotalOver(P) ==
  IF P = {} THEN NegInf
  ELSE LET path == CHOOSE p \in P : TRUE
       IN logsum2(PathScore(path), TotalOver(P \ {path}))

Unpruned == maxrank = 0 /\ beamlogprob = NoBeam

AllStates == Ascending(States)

\* C1: with pruning disabled, decode returns one state per frame, and no
\* sequence of hidden states scores higher than the one it returns.
C1_ViterbiPathIsBest ==
  (decoded.called /\ Unpruned) =>
     /\ ~decoded.raised
     /\ Len(decoded.state_sequence) = Len(framelogprob)
     /\ \A n \in 1..Len(framelogprob) : decoded.state_sequence[n] \in States
     /\ \A path \in Paths :
          LogGeq(PathScore(decoded.state_sequence), PathScore(path))

\* C1 witness: an unpruned decode of MaxFrames frames whose best path has a
\* finite score, changes state, and beats some other path.
C1_Witness ==
  /\ decoded.called /\ Unpruned /\ ~decoded.raised
  /\ Len(framelogprob) = MaxFrames
  /\ PathScore(decoded.state_sequence) # NegInf
  /\ \E n \in 2..MaxFrames : decoded.state_sequence[n] # decoded.state_sequence[n - 1]
  /\ \E path \in Paths :
       PathScore(path) # NegInf /\ LogLess(PathScore(path), PathScore(decoded.state_sequence))

\* C2: with pruning disabled, lpdf returns the log of the total probability of
\* all paths, and the pruner keeps every state of every forward lattice row.
C2_LikelihoodIsExact ==
  (likelihood.called /\ Unpruned) =>
     /\ ~likelihood.raised
     /\ likelihood.logprob = TotalOver(Paths)
     /\ \A n \in 1..Len(framelogprob) :
          _prune_states(ForwardRows(framelogprob, 0, NoBeam, n).lattice[n], 0, NoBeam)
            = [raised |-> FALSE, idx |-> AllStates]

\* C2 witness: an unpruned lpdf of MaxFrames frames of positive likelihood, one
\* of whose forward lattice rows holds a -inf entry.
C2_Witness ==
  /\ likelihood.called /\ Unpruned /\ ~likelihood.raised
  /\ Len(framelogprob) = MaxFrames
  /\ nstates = MaxStates
  /\ likelihood.logprob # NegInf
  /\ \E s \in States :
       ForwardRows(framelogprob, 0, NoBeam, 2).lattice[2][s] = NegInf

\* The exact gamma of state s at frame n: the log of the total probability of
\* the paths that are in s at frame n.
ExactGamma(n, s) == TotalOver({path \in Paths : path[n] = s})

\* C3: with pruning disabled, eval is exact: at every frame gamma sums to the
\* likelihood the forward pass returned, and every posterior is the exact one.
C3_EvalIsExact ==
  (evaluated.called /\ Unpruned) =>
     /\ ~evaluated.raised
     /\ \A n \in 1..Len(framelogprob) : \A s \in States :
          evaluated.posteriors[n][s] = Posterior(ExactGamma(n, s), evaluated.logprob)

\* C3 failing case: an unpruned eval of positive likelihood in which a state
\* of exact posterior above 0 is given the posterior 0.
C3_Witness ==
  /\ evaluated.called /\ Unpruned /\ ~evaluated.raised
  /\ evaluated.logprob # NegInf
  /\ \E n \in 1..Len(framelogprob) : \E s \in States :
       /\ ExactGamma(n, s) # NegInf
       /\ evaluated.posteriors[n][s] # NaN
       /\ evaluated.posteriors[n][s][1] = NegInf

\* C4 as claimed: whatever the pruning, the score decode returns is at most
\* the likelihood lpdf returns for the same arguments.
C4_DecodeAtMostLikelihood ==
  (decoded.called /\ ~decoded.raised
     /\ ~lpdf(framelogprob, maxrank, beamlogprob).raised) =>
     LogGeq(lpdf(framelogprob, maxrank, beamlogprob).logprob, decoded.logprob)

\* C4 as amended: with pruning disabled, the score decode returns is at most
\* the likelihood lpdf returns.
C4_DecodeAtMostLikelihoodUnpruned ==
  (decoded.called /\ Unpruned) =>
     /\ ~decoded.raised
     /\ ~lpdf(framelogprob, 0, NoBeam).raised
     /\ LogGeq(lpdf(framelogprob, 0, NoBeam).logprob, decoded.logprob)

\* C4 witness: an unpruned decode of MaxFrames frames whose score is finite
\* and strictly below the likelihood.
C4_Witness ==
  /\ decoded.called /\ Unpruned /\ ~decoded.raised
  /\ Len(framelogprob) = MaxFrames
  /\ decoded.logprob # NegInf
  /\ LogLess(decoded.logprob, lpdf(framelogprob, 0, NoBeam).logprob)

\* C5: whatever the pruning, the posteriors eval returns sum to 1 at every
\* frame: none is NaN, and the gammas of a frame add up to its normalizer.
C5_PosteriorsSumToOne ==
  (evaluated.called /\ ~evaluated.raised) =>
     \A n \in 1..Len(framelogprob) :
        /\ \A s \in States : evaluated.posteriors[n][s] # NaN
        /\ \A s \in States :
             evaluated.posteriors[n][s][2]
               = logsum([d \in States |-> evaluated.posteriors[n][d][1]])

\* C5 failing case: an eval of observations of positive probability in which
\* pruning leaves a frame with no finite gamma, and its posteriors are NaN.
C5_Witness ==
  /\ evaluated.called /\ ~evaluated.raised
  /\ TotalOver(Paths) # NegInf
  /\ \E n \in 1..Len(framelogprob) : \A s \in States : evaluated.posteriors[n][s] = NaN

\* C6: the pruner with maxrank = nstates and no beam returns what it returns
\* with no pruning at all: every state.
C6_FullRankKeepsAll ==
  (pruned.called /\ maxrank = nstates /\ beamlogprob = NoBeam) =>
     /\ ~pruned.raised
     /\ pruned.idx = _prune_states(framelogprob[1], 0, NoBeam).idx
     /\ pruned.idx = AllStates

\* C6 failing case: on the frame (0, ln 2) of a model of two states, maxrank = 2
\* and no beam keep state 1 alone.
C6_Witness ==
  /\ pruned.called /\ ~pruned.raised
  /\ nstates = 2 /\ maxrank = 2 /\ beamlogprob = NoBeam
  /\ framelogprob[1] = [s \in States |-> IF s = 0 THEN LogOf(1) ELSE LogOf(2)]
  /\ pruned.idx = <<1>>

\* C7: the score decode returns is the joint log-probability of the state
\* sequence it returns.
C7_DecodeScoreIsPathScore ==
  (decoded.called /\ ~decoded.raised) =>
     decoded.logprob = PathScore(decoded.state_sequence)

\* C7 failing case: an unpruned decode of a single frame, where the path is
\* one state and the score returned is the sum over both states.
C7_Witness ==
  /\ decoded.called /\ Unpruned /\ ~decoded.raised
  /\ Len(framelogprob) = 1
  /\ nstates = 2
  /\ PathScore(decoded.state_sequence) # NegInf
  /\ LogLess(PathScore(decoded.state_sequence), decoded.logprob)

\* C8: the constructor and the two setters raise exactly when the shape is
\* wrong or a sum is not 1, and a call that raises leaves the store as it was.
C8_SettersValidate ==
  [][call'.op \in {"__init__", "startprob", "transmat"} =>
       /\ call'.raised <=> ~(call'.shape_ok /\ call'.sum_ok)
       /\ call'.raised => store' = store]_vars

\* C8 witness: a startprob of the wrong length was assigned to a constructed
\* model of MaxStates states, which raised.
C8_Witness ==
  /\ nstates = MaxStates
  /\ call.op = "startprob"
  /\ call.raised
  /\ ~call.shape_ok

\* C9: after init, a parameter whose flag is in params is uniform, and one
\* whose flag is not is what it was.
C9_InitMakesUniform ==
  [][call'.op = "init" =>
       /\ "s" \in call'.params =>
            startprob' = [s \in States |-> <<Den \div nstates>>]
       /\ "s" \notin call'.params => log_startprob' = log_startprob
       /\ "t" \in call'.params =>
            transmat' = [s \in States |-> [d \in States |-> <<Den \div nstates>>]]
       /\ "t" \notin call'.params => log_transmat' = log_transmat]_vars

\* C10: rvs(n) returns exactly n observations.
C10_RvsReturnsN == call.op = "rvs" => Len(call.obs) = call.n

\* A stored log-probability in [-inf, 0]: not NaN, and at most log 1.
ValidLogProb(x) == x # NaN /\ LogGeq(LogOf(Den), x)

\* C11: once the model is constructed, whatever startprob and transmat were
\* assigned, every stored entry of log_startprob and log_transmat lies in
\* [-inf, 0] and none is NaN.
C11_StoredLogsValid ==
  nstates > 0 =>
     /\ \A s \in States : ValidLogProb(log_startprob[s])
     /\ \A s \in States : \A d \in States : ValidLogProb(log_transmat[s][d])

\* C11 failing case: a startprob with a negative entry that sums to 1 was
\* assigned without an error, and the store holds a NaN for it.
C11_Witness ==
  /\ nstates = MaxStates
  /\ call.op = "startprob" /\ ~call.raised
  /\ \E s \in States : log_startprob[s] = NaN
  /\ \A s \in States : \A d \in States : log_transmat[s][d] # NaN

\* The states _prune_states keeps in row n of a Viterbi lattice.
ActiveIn(lattice, n) ==
  {s \in States :
     \E j \in 1..Len(_prune_states(lattice[n], maxrank, beamlogprob).idx) :
        _prune_states(lattice[n], maxrank, beamlogprob).idx[j] = s}

\* logTransMat[s -> d] + lattice[n-1][s]
Through(last, s, d) == LogAdd(log_transmat[s][d], last[s])

\* The lowest-indexed state of act that maximizes Through(last, s, d).
BestSource(last, act, d) ==
  Least({s \in act : \A t \in act : LogGeq(Through(last, s, d), Through(last, t, d))})

TracebackIsBestSource(lattice, traceback) ==
  \A n \in 2..Len(lattice) : \A d \in States :
     traceback[n][d] = BestSource(lattice[n - 1], ActiveIn(lattice, n - 1), d)

PathFollowsBestSource(lattice, path) ==
  \A n \in 2..Len(lattice) :
     /\ path[n - 1] \in ActiveIn(lattice, n - 1)
     /\ path[n - 1] = BestSource(lattice[n - 1], ActiveIn(lattice, n - 1), path[n])

ViterbiOf == ViterbiRows(framelogprob, maxrank, beamlogprob, Len(framelogprob))

\* C12: whatever the pruning, every traceback entry of the Viterbi pass is the
\* state index of the lowest-indexed active source that maximizes
\* logTransMat[source -> dest] + lattice[n-1][source], and each state of the
\* decoded sequence is active in its frame and is that source for the next.
C12_TracebackHoldsStates ==
  (decoded.called /\ ~decoded.raised) =>
     /\ TracebackIsBestSource(ViterbiOf.lattice, ViterbiOf.traceback)
     /\ PathFollowsBestSource(ViterbiOf.lattice, decoded.state_sequence)

\* C12 failing case: startprob (0, 1), a uniform transmat, two flat frames and
\* the beam ln 0.45: state 1 alone is active in frame 0, and decode returns
\* the path 0, 0, whose first state has probability 0.
C12_Witness ==
  /\ decoded.called /\ ~decoded.raised
  /\ nstates = 2 /\ maxrank = 0 /\ beamlogprob # NoBeam
  /\ log_startprob = StartprobStored(<<0, Den>>)
  /\ log_transmat = TransmatStored(UniformMatrix(2))
  /\ framelogprob = [n \in 1..2 |-> [s \in States |-> LogOf(1)]]
  /\ ActiveIn(ViterbiOf.lattice, 1) = {1}
  /\ decoded.state_sequence = <<0, 0>>
====
